---- MODULE Spec2Model ----
(***************************************************************************)
(* Model of packages/performance/src/services/remote_config_service.ts:    *)
(* the remote-config resolver of the performance-monitoring SDK.           *)
(*                                                                         *)
(* getConfig(iid) reads a cached response from localStorage, and on a miss *)
(* fetches one (auth token, then HTTP), applies it to the settings         *)
(* singleton and stores it with an expiry.  Each promise callback of the   *)
(* chain is one action; several getConfig calls may be in flight.          *)
(***************************************************************************)
EXTENDS Integers, Sequences, FiniteSets, TLC

(***************************************************************************)
(* JavaScript numbers.                                                     *)
(*                                                                         *)
(* The running hash of getHashPercent leaves the range of a 32-bit integer *)
(* (that is what is being verified), so it is kept as a pair <<hi, lo>>    *)
(* standing for hi * 2^16 + lo with 0 <= lo < 2^16; hi may be negative.    *)
(* All other numbers of the model are small and are plain integers.        *)
(***************************************************************************)
W16 == 65536
HalfW16 == 32768

\* a number is [nan, n]: NaN, or the integer n
NaN == [nan |-> TRUE, n |-> 0]
Num(n) == [nan |-> FALSE, n |-> n]

\* a < b, a > b and a <= b on numbers: false as soon as one side is NaN
NumLt(a, b) == ~a.nan /\ ~b.nan /\ a.n < b.n
NumGt(a, b) == ~a.nan /\ ~b.nan /\ a.n > b.n
NumLeq(a, b) == ~a.nan /\ ~b.nan /\ a.n <= b.n

\* the pair for the integer hi * 2^16 + x, x any small integer
Norm(hi, x) == <<hi + (x \div W16), x % W16>>

Zero == <<0, 0>>

\* ToInt32 of ECMAScript: the value modulo 2^32, read as a signed integer
ToInt32(h) ==
    LET m == h[1] % W16
    IN  <<IF m >= HalfW16 THEN m - W16 ELSE m, h[2]>>

\* a << 3 : ToInt32(a), shifted left, truncated to 32 bits, signed
Shl3(h) ==
    LET a  == ToInt32(h)
        lo == a[2] * 8
    IN  ToInt32(<<(a[1] * 8 + (lo \div W16)) % W16, lo % W16>>)

\* a + b on numbers (no truncation: the operands are far below 2^53)
NumAdd(a, b) == Norm(a[1] + b[1], a[2] + b[2])

\* a - c for a character code c
NumSubCode(a, c) == Norm(a[1], a[2] - c)

\* a % 100 of JavaScript: the remainder takes the sign of the dividend
JsRem100(h) ==
    LET m == ((h[1] % 100) * (W16 % 100) + h[2]) % 100
    IN  IF h[1] >= 0 \/ m = 0 THEN m ELSE m - 100

MathAbs(x) == IF x < 0 THEN -x ELSE x

\* a plausible slip: "+ hash" left out, which makes hash * 8 - charCode
HashStepNoAdd(hash, code) == NumSubCode(Shl3(hash), code)

\* one iteration of the loop of getHashPercent
HashStep(hash, code) == NumSubCode(NumAdd(Shl3(hash), hash), code)

\* the loop of getHashPercent from character i on; the assignment to hash
\* is a value before the next iteration starts (h ranges over that one value)
RECURSIVE HashLoop(_, _, _)
HashLoop(seed, i, hash) ==
    IF i > Len(seed) THEN hash
    ELSE CHOOSE r \in {HashLoop(seed, i + 1, h) :
                          h \in {HashStep(hash, seed[i])}} : TRUE

\* a plausible slip: Math.abs left out
HashFinalNoAbs(hash) == JsRem100(hash)

HashFinal(hash) == MathAbs(JsRem100(hash))

getHashPercent(seed) == HashFinal(HashLoop(seed, 1, Zero))

\* a plausible slip: > for <
isDestTransportGt(iid, rolloutPercent) ==
    IF Len(iid) = 0 THEN FALSE
    ELSE NumGt(Num(getHashPercent(iid)), rolloutPercent)

\* a plausible slip: <= for <
isDestTransportLeq(iid, rolloutPercent) ==
    IF Len(iid) = 0 THEN FALSE
    ELSE NumLeq(Num(getHashPercent(iid)), rolloutPercent)

isDestTransport(iid, rolloutPercent) ==
    IF Len(iid) = 0 THEN FALSE
    ELSE NumLt(Num(getHashPercent(iid)), rolloutPercent)

(***************************************************************************)
(* Strings, JSON values and JSON text.                                     *)
(*                                                                         *)
(* A string is a TLA+ string, except the decimal rendering of a timestamp, *)
(* which only occurs under the expiry key.  An object is the function from *)
(* its own keys to their values; reading a key it lacks gives undefined.   *)
(***************************************************************************)

\* Number(s) on the strings of the model; "" is 0, any other text is NaN
Number(str) ==
    CASE str = ""    -> Num(0)
      [] str = "0"   -> Num(0)
      [] str = "1"   -> Num(1)
      [] str = "7"   -> Num(7)
      [] str = "38"  -> Num(38)
      [] str = "50"  -> Num(50)
      [] str = "100" -> Num(100)
      [] OTHER       -> NaN

\* the values a promise of the chain carries: undefined, null or a response
Undefined == [k |-> "undefined"]
Null == [k |-> "null"]
NoProps == [x \in {} |-> ""]

\* the response {entries?: e, state?: st}
Response(hasEntries, e, hasState, st) ==
    [k |-> "obj", hasEntries |-> hasEntries, entries |-> e,
     hasState |-> hasState, state |-> st]

\* if (config), if (!config): undefined and null are falsy, an object is not
Truthy(v) == v.k = "obj"

\* the keys of RemoteConfigTemplate, in the order JSON text lists them
TemplateKeys ==
    <<"fpr_enabled", "fpr_log_source", "fpr_log_endpoint_url",
      "fpr_log_transport_key", "fpr_log_transport_web_percent",
      "fpr_vc_network_request_sampling_rate", "fpr_vc_trace_sampling_rate",
      "fpr_vc_session_sampling_rate">>

\* the members of an object as JSON text lists them: a sequence of pairs
Members(e) ==
    LET present == SelectSeq(TemplateKeys, LAMBDA key : key \in DOMAIN e)
    IN  [i \in 1..Len(present) |-> <<present[i], e[present[i]]>>]

\* the object a sequence of members denotes
ObjectOf(members) ==
    [key \in {members[i][1] : i \in 1..Len(members)} |->
        LET i == CHOOSE j \in 1..Len(members) : members[j][1] = key
        IN  members[i][2]]

\* a plausible slip: JSON.stringify(config.entries), the text of the entries
\* alone, which reads back as an object without entries and state
JSONstringifyEntries(v) ==
    [k |-> "json", hasEntries |-> FALSE, entries |-> <<>>, state |-> <<>>]

\* JSON.stringify of a truthy value
JSONstringify(v) ==
    [k |-> "json", hasEntries |-> v.hasEntries, entries |-> Members(v.entries),
     state |-> IF v.hasState THEN <<v.state>> ELSE <<>>]

\* JSON.parse of a text that parses ("null" parses to null)
JSONparse(text) ==
    IF text.k = "jsonnull" THEN Null
    ELSE Response(text.hasEntries, ObjectOf(text.entries),
                  Len(text.state) > 0,
                  IF Len(text.state) > 0 THEN text.state[1] ELSE "")

\* JSON.parse throws on this text
ParseThrows(text) == text.k = "malformed"

(***************************************************************************)
(* processConfig                                                           *)
(***************************************************************************)
SECONDARY_CONFIGS == [key \in {"loggingEnabled", "shouldSendToTransport"} |-> TRUE]
NO_TEMPLATE_CONFIGS == [key \in {"shouldSendToTransport"} |-> FALSE]

\* x !== undefined, and the truthiness of a string, for the key of an object
Defined(e, key) == key \in DOMAIN e
NonEmpty(e, key) == key \in DOMAIN e /\ e[key] # ""

\* the denominator of the values Math.random() returns: k / RandDen, k < RandDen
RandDen == 2
Randoms == 0..(RandDen - 1)

\* Math.random() <= samplingRate, Math.random() having returned random / RandDen
shouldLogAfterSampling(samplingRate, random) ==
    ~samplingRate.nan /\ random <= samplingRate.n * RandDen

\* config.state is one of the states that mean "no template"
NoTemplateState(config) ==
    \/ ~config.hasState
    \/ config.state = "INSTANCE_STATE_UNSPECIFIED"
    \/ config.state = "NO_TEMPLATE"

\* a plausible slip: the secondary default of loggingEnabled left out
ApplyFieldsNoSecondary(e, s) ==
    LET s1 == IF Defined(e, "fpr_enabled")
              THEN [s EXCEPT !.loggingEnabled = (e["fpr_enabled"] = "true")]
              ELSE s
        s2 == IF NonEmpty(e, "fpr_log_source")
              THEN [s1 EXCEPT !.logSource = Number(e["fpr_log_source"])]
              ELSE s1
        s3 == IF NonEmpty(e, "fpr_log_endpoint_url")
              THEN [s2 EXCEPT !.logEndPointUrl = e["fpr_log_endpoint_url"]]
              ELSE s2
    IN  IF NonEmpty(e, "fpr_log_transport_key")
        THEN [s3 EXCEPT !.transportKey = e["fpr_log_transport_key"]]
        ELSE s3

\* the settings after the lines that set loggingEnabled .. transportKey
ApplyFields(e, s) ==
    LET s1 == IF Defined(e, "fpr_enabled")
              THEN [s EXCEPT !.loggingEnabled = (e["fpr_enabled"] = "true")]
              ELSE IF Defined(SECONDARY_CONFIGS, "loggingEnabled")
              THEN [s EXCEPT !.loggingEnabled = SECONDARY_CONFIGS["loggingEnabled"]]
              ELSE s
        s2 == IF NonEmpty(e, "fpr_log_source")
              THEN [s1 EXCEPT !.logSource = Number(e["fpr_log_source"])]
              ELSE IF Defined(SECONDARY_CONFIGS, "logSource")
              THEN [s1 EXCEPT !.logSource = SECONDARY_CONFIGS["logSource"]]
              ELSE s1
        s3 == IF NonEmpty(e, "fpr_log_endpoint_url")
              THEN [s2 EXCEPT !.logEndPointUrl = e["fpr_log_endpoint_url"]]
              ELSE IF Defined(SECONDARY_CONFIGS, "logEndPointUrl")
              THEN [s2 EXCEPT !.logEndPointUrl = SECONDARY_CONFIGS["logEndPointUrl"]]
              ELSE s2
    IN  IF NonEmpty(e, "fpr_log_transport_key")
        THEN [s3 EXCEPT !.transportKey = e["fpr_log_transport_key"]]
        ELSE IF Defined(SECONDARY_CONFIGS, "transportKey")
        THEN [s3 EXCEPT !.transportKey = SECONDARY_CONFIGS["transportKey"]]
        ELSE s3

\* a plausible slip: the rollout field consulted before the state
ApplyTransportPercentFirst(iid, config, e, s) ==
    IF Defined(e, "fpr_log_transport_web_percent")
    THEN [s EXCEPT !.shouldSendToTransport =
             isDestTransport(iid, Number(e["fpr_log_transport_web_percent"]))]
    ELSE IF NoTemplateState(config)
    THEN [s EXCEPT !.shouldSendToTransport = NO_TEMPLATE_CONFIGS["shouldSendToTransport"]]
    ELSE [s EXCEPT !.shouldSendToTransport = SECONDARY_CONFIGS["shouldSendToTransport"]]

\* the settings after the three-way rule for shouldSendToTransport
ApplyTransport(iid, config, e, s) ==
    IF NoTemplateState(config)
    THEN IF Defined(NO_TEMPLATE_CONFIGS, "shouldSendToTransport")
         THEN [s EXCEPT !.shouldSendToTransport =
                  NO_TEMPLATE_CONFIGS["shouldSendToTransport"]]
         ELSE s
    ELSE IF Defined(e, "fpr_log_transport_web_percent")
    THEN [s EXCEPT !.shouldSendToTransport =
             isDestTransport(iid, Number(e["fpr_log_transport_web_percent"]))]
    ELSE IF Defined(SECONDARY_CONFIGS, "shouldSendToTransport")
    THEN [s EXCEPT !.shouldSendToTransport = SECONDARY_CONFIGS["shouldSendToTransport"]]
    ELSE s

\* the settings after the lines that set the two sampling rates
ApplyRates(e, s) ==
    LET s1 == IF Defined(e, "fpr_vc_network_request_sampling_rate")
              THEN [s EXCEPT !.networkRequestsSamplingRate =
                       Number(e["fpr_vc_network_request_sampling_rate"])]
              ELSE IF Defined(SECONDARY_CONFIGS, "networkRequestsSamplingRate")
              THEN [s EXCEPT !.networkRequestsSamplingRate =
                       SECONDARY_CONFIGS["networkRequestsSamplingRate"]]
              ELSE s
    IN  IF Defined(e, "fpr_vc_trace_sampling_rate")
        THEN [s1 EXCEPT !.tracesSamplingRate =
                 Number(e["fpr_vc_trace_sampling_rate"])]
        ELSE IF Defined(SECONDARY_CONFIGS, "tracesSamplingRate")
        THEN [s1 EXCEPT !.tracesSamplingRate = SECONDARY_CONFIGS["tracesSamplingRate"]]
        ELSE s1

\* the settings after the per-session flags are drawn
ApplySampling(s, rndTrace, rndNetwork) ==
    [s EXCEPT !.logTraceAfterSampling =
                  shouldLogAfterSampling(s.tracesSamplingRate, rndTrace),
              !.logNetworkAfterSampling =
                  shouldLogAfterSampling(s.networkRequestsSamplingRate, rndNetwork)]

\* a plausible slip: the per-session flags drawn before the two sampling
\* rates are set
processConfigSampleFirst(iid, config, s, rndTrace, rndNetwork) ==
    IF ~Truthy(config) THEN s
    ELSE LET e == IF config.hasEntries THEN config.entries ELSE NoProps
         IN  ApplyRates(e,
                 ApplySampling(ApplyTransport(iid, config, e, ApplyFields(e, s)),
                               rndTrace, rndNetwork))

\* a plausible slip: the test of an absent config left out, so that
\* undefined is applied like a response without entries and state
processConfigNoGuard(iid, config, s, rndTrace, rndNetwork) ==
    LET e == IF Truthy(config) /\ config.hasEntries THEN config.entries ELSE NoProps
        c == IF Truthy(config) THEN config ELSE [hasState |-> FALSE, state |-> ""]
    IN  ApplySampling(
            ApplyRates(e, ApplyTransport(iid, c, e, ApplyFields(e, s))),
            rndTrace, rndNetwork)

\* the settings processConfig(iid, config) leaves, from the settings s;
\* rndTrace and rndNetwork are the two values Math.random() returns
processConfig(iid, config, s, rndTrace, rndNetwork) ==
    IF ~Truthy(config) THEN s
    ELSE LET e == IF config.hasEntries THEN config.entries ELSE NoProps
         IN  ApplySampling(
                 ApplyRates(e, ApplyTransport(iid, config, e, ApplyFields(e, s))),
                 rndTrace, rndNetwork)

(***************************************************************************)
(* localStorage: the two keys of the module.                               *)
(*                                                                         *)
(* What getItem returns under CONFIG_EXPIRY_LOCAL_STORAGE_KEY is null      *)
(* ("absent"), the empty string, a text that is no number, or the decimal  *)
(* rendering of an integer; under CONFIG_LOCAL_STORAGE_KEY it is null, the *)
(* empty string, a text JSON.parse rejects, the text "null", or the text   *)
(* of an object.                                                           *)
(***************************************************************************)
AbsentItem == [k |-> "absent"]
EmptyItem == [k |-> "empty"]
TextItem == [k |-> "text"]
MalformedItem == [k |-> "malformed"]
JsonNullItem == [k |-> "jsonnull"]

\* String(n) for an integer n, and Number(str) for what the expiry key holds
String(n) == [k |-> "dec", n |-> n]
NumberOfItem(item) ==
    CASE item.k = "dec"   -> Num(item.n)
      [] item.k = "empty" -> Num(0)
      [] OTHER            -> NaN

\* !item for what getItem returned: null and "" are falsy
Falsy(item) == item.k \in {"absent", "empty"}

HourMs == 60 * 60 * 1000

\* a plausible slip: >= for >
configValidGeq(expiry, dateNow) ==
    LET e == NumberOfItem(expiry) IN ~e.nan /\ e.n >= dateNow

configValid(expiry, dateNow) == NumGt(NumberOfItem(expiry), Num(dateNow))

\* a plausible slip: JSON.parse outside a try, so that its exception leaves
\* getStoredConfig
getStoredConfigNoCatch(hasStorage, items, dateNow, getThrows) ==
    IF ~hasStorage THEN [threw |-> FALSE, value |-> Undefined]
    ELSE IF getThrows THEN [threw |-> TRUE, value |-> Undefined]
    ELSE IF Falsy(items.expiry) \/ ~configValid(items.expiry, dateNow)
    THEN [threw |-> FALSE, value |-> Undefined]
    ELSE IF Falsy(items.blob) THEN [threw |-> FALSE, value |-> Undefined]
    ELSE IF ParseThrows(items.blob) THEN [threw |-> TRUE, value |-> Undefined]
    ELSE [threw |-> FALSE, value |-> JSONparse(items.blob)]

\* a plausible slip: the return of the parsed value left out
getStoredConfigNoReturn(hasStorage, items, dateNow, getThrows) ==
    IF ~hasStorage THEN [threw |-> FALSE, value |-> Undefined]
    ELSE IF getThrows THEN [threw |-> TRUE, value |-> Undefined]
    ELSE [threw |-> FALSE, value |-> Undefined]

\* getStoredConfig(): whether it threw, and the value it returned otherwise;
\* getThrows: localStorage.getItem throws
getStoredConfig(hasStorage, items, dateNow, getThrows) ==
    IF ~hasStorage THEN [threw |-> FALSE, value |-> Undefined]
    ELSE IF getThrows THEN [threw |-> TRUE, value |-> Undefined]
    ELSE IF Falsy(items.expiry) \/ ~configValid(items.expiry, dateNow)
    THEN [threw |-> FALSE, value |-> Undefined]
    ELSE IF Falsy(items.blob) THEN [threw |-> FALSE, value |-> Undefined]
    ELSE IF ParseThrows(items.blob) THEN [threw |-> FALSE, value |-> Undefined]
    ELSE [threw |-> FALSE, value |-> JSONparse(items.blob)]

\* a plausible slip: the expiry written before the blob
storeConfigExpiryFirst(config, hasStorage, items, dateNow, configTimeToLive, setFail) ==
    IF ~Truthy(config) \/ ~hasStorage
    THEN [store |-> items, nSet |-> 0, threw |-> FALSE]
    ELSE IF setFail = "expiry"
    THEN [store |-> items, nSet |-> 0, threw |-> TRUE]
    ELSE LET s1 == [items EXCEPT !.expiry =
                       String(dateNow + configTimeToLive * HourMs)]
         IN  IF setFail = "blob"
             THEN [store |-> s1, nSet |-> 1, threw |-> TRUE]
             ELSE [store |-> [s1 EXCEPT !.blob = JSONstringify(config)],
                   nSet |-> 2, threw |-> FALSE]

\* a plausible slip: what another call stored meanwhile is not overwritten
storeConfigKeepFirst(config, hasStorage, items, dateNow, configTimeToLive, setFail) ==
    IF ~Truthy(config) \/ ~hasStorage \/ items.blob.k = "json"
    THEN [store |-> items, nSet |-> 0, threw |-> FALSE]
    ELSE IF setFail = "blob"
    THEN [store |-> items, nSet |-> 0, threw |-> TRUE]
    ELSE LET s1 == [items EXCEPT !.blob = JSONstringify(config)]
         IN  IF setFail = "expiry"
             THEN [store |-> s1, nSet |-> 1, threw |-> TRUE]
             ELSE [store |-> [s1 EXCEPT !.expiry =
                                 String(dateNow + configTimeToLive * HourMs)],
                   nSet |-> 2, threw |-> FALSE]

\* a plausible slip: the time to live added as if it were milliseconds
storeConfigNoHours(config, hasStorage, items, dateNow, configTimeToLive, setFail) ==
    IF ~Truthy(config) \/ ~hasStorage
    THEN [store |-> items, nSet |-> 0, threw |-> FALSE]
    ELSE IF setFail = "blob"
    THEN [store |-> items, nSet |-> 0, threw |-> TRUE]
    ELSE LET s1 == [items EXCEPT !.blob = JSONstringify(config)]
         IN  IF setFail = "expiry"
             THEN [store |-> s1, nSet |-> 1, threw |-> TRUE]
             ELSE [store |-> [s1 EXCEPT !.expiry = String(dateNow + configTimeToLive)],
                   nSet |-> 2, threw |-> FALSE]

\* storeConfig(config): the storage it leaves, the number of setItem calls
\* that returned, and whether one threw; setFail names the setItem that
\* throws, if any ("blob", "expiry" or "none")
storeConfig(config, hasStorage, items, dateNow, configTimeToLive, setFail) ==
    IF ~Truthy(config) \/ ~hasStorage
    THEN [store |-> items, nSet |-> 0, threw |-> FALSE]
    ELSE IF setFail = "blob"
    THEN [store |-> items, nSet |-> 0, threw |-> TRUE]
    ELSE LET s1 == [items EXCEPT !.blob = JSONstringify(config)]
         IN  IF setFail = "expiry"
             THEN [store |-> s1, nSet |-> 1, threw |-> TRUE]
             ELSE [store |-> [s1 EXCEPT !.expiry =
                                 String(dateNow + configTimeToLive * HourMs)],
                   nSet |-> 2, threw |-> FALSE]

\* a plausible slip: the body of a response that is not ok is used
RemoteResultAnyStatus(outcome, body) ==
    IF outcome \in {"ok", "notOk"} THEN body ELSE Undefined

\* what the promise of getRemoteConfig resolves to once the request settled:
\* the parsed body of an ok response; undefined after the catch otherwise
RemoteResult(outcome, body) ==
    IF outcome = "ok" THEN body ELSE Undefined

(***************************************************************************)
(* The state.                                                              *)
(***************************************************************************)
VARIABLES
    now,           \* Date.now()
    ticks,         \* how often the clock has advanced
    localStorage,  \* whether Api.getInstance().localStorage is defined
    store,         \* the items under the two keys: [expiry, blob]
    settings,      \* the fields of SettingsService.getInstance()
    iid,           \* the installation id the calls pass to getConfig
    calls,         \* the getConfig calls: position in the chain, values, log
    hSeed,         \* the argument of a direct call of the hash functions
    hPercent,      \* the rolloutPercent of that call
    hOut           \* what the call returned

vars == <<now, ticks, localStorage, store, settings, iid, calls, hSeed, hPercent, hOut>>

\* bounds of the model
MaxCalls == 2
MaxTicks == 1
StartTime == 1000
TimeToLive == 1
MaxSeedLen == 12

Calls == 1..MaxCalls

\* installation ids: "", "abc" and twelve times "a"
EmptyIid == <<>>
AbcIid == <<97, 98, 99>>
Alphabet == {97, 122}
LongIid == [i \in 1..MaxSeedLen |-> 97]
MainIids == {EmptyIid, AbcIid}

\* response bodies of the main specification
NoTemplateResponse ==
    Response(TRUE, [key \in {"fpr_log_transport_web_percent", "fpr_enabled"} |->
                       IF key = "fpr_enabled" THEN "false" ELSE "100"],
             TRUE, "NO_TEMPLATE")
UpdateResponse ==
    Response(TRUE, [key \in {"fpr_log_transport_web_percent",
                             "fpr_vc_trace_sampling_rate", "fpr_log_source"} |->
                       CASE key = "fpr_log_transport_web_percent" -> "50"
                         [] key = "fpr_vc_trace_sampling_rate" -> "0"
                         [] OTHER -> "7"],
             TRUE, "UPDATE")
MainResponses == {NoTemplateResponse, UpdateResponse}
MainBodies == MainResponses \cup {Null}

\* the settings before the first getConfig
PriorSettings ==
    [loggingEnabled |-> FALSE, logSource |-> Num(0), logEndPointUrl |-> "url0",
     transportKey |-> "key0", shouldSendToTransport |-> TRUE,
     networkRequestsSamplingRate |-> Num(1), tracesSamplingRate |-> Num(1),
     logTraceAfterSampling |-> FALSE, logNetworkAfterSampling |-> FALSE,
     configTimeToLive |-> TimeToLive]

\* a getConfig call that has not started.  Beside its position in the
\* chain (pc) and the value the chain carries (config) a call logs what it
\* did: the branch getConfig took (path), what the cache check read
\* (seenExpiry, seenBlob: the kind of item under the key; seenCmp: the expiry
\* against the clock), whether getItem threw, how the request ended
\* (outcome), whether setItem threw, how
\* often it called getRemoteConfig, getAuthTokenPromise, fetch and setItem,
\* and, while its storeConfig callback is queued, how many storeConfig
\* callbacks of other calls are queued ahead of it (ahead)
IdleCall ==
    [pc |-> "idle", config |-> Undefined, path |-> "none",
     seenExpiry |-> "none", seenCmp |-> "none", seenBlob |-> "none",
     getThrew |-> FALSE,
     outcome |-> "none", setThrew |-> FALSE,
     nRemote |-> 0, nAuth |-> 0, nFetch |-> 0, nSet |-> 0, ahead |-> 0]

\* what localStorage may hold before the first call: nothing, what an
\* earlier session stored, and what other code of the page left there
ValidExpiry == String(StartTime + TimeToLive * HourMs - 1)
InitStores ==
    {[expiry |-> AbsentItem, blob |-> AbsentItem],
     [expiry |-> AbsentItem, blob |-> JSONstringify(UpdateResponse)],
     [expiry |-> String(StartTime), blob |-> JSONstringify(UpdateResponse)],
     [expiry |-> ValidExpiry, blob |-> JSONstringify(UpdateResponse)],
     [expiry |-> ValidExpiry, blob |-> AbsentItem],
     [expiry |-> ValidExpiry, blob |-> MalformedItem],
     [expiry |-> ValidExpiry, blob |-> JsonNullItem]}

EmptyStore == [expiry |-> AbsentItem, blob |-> AbsentItem]

InitMain ==
    /\ now = StartTime
    /\ ticks = 0
    /\ localStorage \in BOOLEAN
    /\ store \in IF localStorage THEN InitStores ELSE {EmptyStore}
    /\ settings = PriorSettings
    /\ iid \in MainIids
    /\ calls = [c \in Calls |-> IdleCall]

InitHashIdle ==
    /\ hSeed = EmptyIid
    /\ hPercent = NaN
    /\ hOut = [k |-> "none"]

Init == InitMain /\ InitHashIdle

hashVars == <<hSeed, hPercent, hOut>>

(***************************************************************************)
(* getConfig(iid), up to its return: the cache check, and on a miss the    *)
(* call of getRemoteConfig, which calls getAuthTokenPromise.  getThrows:   *)
(* getItem throws.  Calls are numbered in the order they are made.         *)
(***************************************************************************)
\* the expiry item against the clock, for the log of the call
Compare(item, dateNow) ==
    IF item.k # "dec" THEN "none"
    ELSE IF item.n < dateNow THEN "past"
    ELSE IF item.n = dateNow THEN "equal"
    ELSE "future"

Start(c, getThrows, rndTrace, rndNetwork) ==
    /\ calls[c].pc = "idle"
    /\ \A b \in Calls : b < c => calls[b].pc # "idle"
    /\ LET seen == IF localStorage
                   THEN [calls[c] EXCEPT !.seenExpiry = store.expiry.k,
                                         !.seenCmp = Compare(store.expiry, now),
                                         !.seenBlob = store.blob.k]
                   ELSE calls[c]
           stored == getStoredConfig(localStorage, store, now, getThrows)
       IN  IF stored.threw
           THEN /\ calls' = [calls EXCEPT ![c] = [seen EXCEPT !.pc = "thrown",
                                                              !.path = "thrown",
                                                              !.getThrew = getThrows]]
                /\ UNCHANGED settings
           ELSE IF Truthy(stored.value)
           THEN /\ settings' = processConfig(iid, stored.value, settings,
                                             rndTrace, rndNetwork)
                /\ calls' = [calls EXCEPT ![c] = [seen EXCEPT !.pc = "fulfilled",
                                                              !.path = "cached"]]
           ELSE /\ calls' = [calls EXCEPT ![c] = [seen EXCEPT !.pc = "auth",
                                                              !.path = "remote",
                                                              !.nRemote = @ + 1,
                                                              !.nAuth = @ + 1]]
                /\ UNCHANGED settings
    /\ UNCHANGED <<now, ticks, localStorage, store, iid, hashVars>>

(***************************************************************************)
(* The promise of getAuthTokenPromise settles.  Fulfilled: the callback    *)
(* builds the request and calls fetch.  Rejected: the catch of             *)
(* getRemoteConfig logs and returns undefined.                             *)
(***************************************************************************)
AuthSettled(c, ok) ==
    /\ calls[c].pc = "auth"
    /\ calls' = [calls EXCEPT ![c] =
                    IF ok THEN [@ EXCEPT !.pc = "fetch", !.nFetch = @ + 1]
                    ELSE [@ EXCEPT !.pc = "process", !.outcome = "authFailed",
                                   !.config = RemoteResult("authFailed", Undefined)]]
    /\ UNCHANGED <<now, ticks, localStorage, store, settings, iid, hashVars>>

(***************************************************************************)
(* The request settles: fetch rejects ("fetchFailed"), the response is not *)
(* ok ("notOk"), or it is ok and its body parses to body ("ok").           *)
(***************************************************************************)
FetchOutcomes == {"fetchFailed", "notOk", "ok"}

FetchSettled(c, outcome, body) ==
    /\ calls[c].pc = "fetch"
    /\ calls' = [calls EXCEPT ![c] = [@ EXCEPT !.pc = "process",
                                               !.outcome = outcome,
                                               !.config = RemoteResult(outcome, body)]]
    /\ UNCHANGED <<now, ticks, localStorage, store, settings, iid, hashVars>>

(***************************************************************************)
(* .then(config => processConfig(iid, config)).  Its return value fulfils  *)
(* the promise the next .then hangs on, which puts the storeConfig         *)
(* callback at the end of the job queue: behind those of the calls that    *)
(* are at "store" now.                                                     *)
(***************************************************************************)
Process(c, rndTrace, rndNetwork) ==
    /\ calls[c].pc = "process"
    /\ settings' = processConfig(iid, calls[c].config, settings,
                                 rndTrace, rndNetwork)
    /\ calls' = [calls EXCEPT ![c] =
                    [@ EXCEPT !.pc = "store",
                              !.ahead = Cardinality({b \in Calls :
                                                       calls[b].pc = "store"})]]
    /\ UNCHANGED <<now, ticks, localStorage, store, iid, hashVars>>

(***************************************************************************)
(* .then(config => storeConfig(config), () => {}): the first callback runs *)
(* since the promise before it is fulfilled; when it throws, the promise   *)
(* getConfig returned is rejected, as the second callback only sees the    *)
(* rejection of the promise before.  storeConfig returns nothing: the      *)
(* promise carries undefined from here on.  The job queue is first in,     *)
(* first out: the callback runs when none is queued ahead of it.           *)
(***************************************************************************)
SetFails == {"none", "blob", "expiry"}

Store(c, setFail) ==
    /\ calls[c].pc = "store"
    /\ calls[c].ahead = 0
    /\ LET r == storeConfig(calls[c].config, localStorage, store, now,
                            settings.configTimeToLive, setFail)
       IN  /\ store' = r.store
           /\ calls' = [b \in Calls |->
                           IF b = c
                           THEN [calls[b] EXCEPT
                                    !.pc = IF r.threw THEN "rejected" ELSE "fulfilled",
                                    !.config = Undefined,
                                    !.setThrew = r.threw,
                                    !.nSet = @ + r.nSet]
                           ELSE IF calls[b].pc = "store"
                           THEN [calls[b] EXCEPT !.ahead = @ - 1]
                           ELSE calls[b]]
    /\ UNCHANGED <<now, ticks, localStorage, settings, iid, hashVars>>

(***************************************************************************)
(* The clock advances.                                                     *)
(***************************************************************************)
TickSteps == {TimeToLive * HourMs - 1, TimeToLive * HourMs}

Tick(d) ==
    /\ ticks < MaxTicks
    /\ now' = now + d
    /\ ticks' = ticks + 1
    /\ UNCHANGED <<localStorage, store, settings, iid, calls, hashVars>>

Next ==
    \/ \E c \in Calls, g \in BOOLEAN, r1 \in Randoms, r2 \in Randoms :
          Start(c, g, r1, r2)
    \/ \E c \in Calls, ok \in BOOLEAN : AuthSettled(c, ok)
    \/ \E c \in Calls, o \in FetchOutcomes, b \in MainBodies : FetchSettled(c, o, b)
    \/ \E c \in Calls, r1 \in Randoms, r2 \in Randoms : Process(c, r1, r2)
    \/ \E c \in Calls, f \in SetFails : Store(c, f)
    \/ \E d \in TickSteps : Tick(d)

Spec == Init /\ [][Next]_vars

(***************************************************************************)
(* Direct calls of the exported isDestTransport and of getHashPercent,     *)
(* on every seed over Alphabet of at most MaxSeedLen characters.           *)
(***************************************************************************)
Seeds == UNION {[1..n -> Alphabet] : n \in 0..MaxSeedLen}
Percents == {NaN, Num(0), Num(38), Num(50), Num(100)}

InitMainIdle ==
    /\ now = StartTime
    /\ ticks = 0
    /\ localStorage = TRUE
    /\ store = EmptyStore
    /\ settings = PriorSettings
    /\ iid = EmptyIid
    /\ calls = [c \in Calls |-> IdleCall]

InitHash ==
    /\ InitMainIdle
    /\ hSeed \in Seeds
    /\ hPercent \in Percents
    /\ hOut = [k |-> "none"]

mainVars == <<now, ticks, localStorage, store, settings, iid, calls>>

HashCall ==
    /\ hOut.k = "none"
    /\ hOut' = [k |-> "hash", v |-> getHashPercent(hSeed)]
    /\ UNCHANGED <<mainVars, hSeed, hPercent>>

DestCall ==
    /\ hOut.k = "none"
    /\ hOut' = [k |-> "dest", v |-> isDestTransport(hSeed, hPercent)]
    /\ UNCHANGED <<mainVars, hSeed, hPercent>>

\* isDestTransport is called once more with the same arguments
DestAgain ==
    /\ hOut.k = "dest"
    /\ hOut' = [k |-> "again", v |-> hOut.v, w |-> isDestTransport(hSeed, hPercent)]
    /\ UNCHANGED <<mainVars, hSeed, hPercent>>

NextHash == HashCall \/ DestCall \/ DestAgain

SpecHash == InitHash /\ [][NextHash]_vars

(***************************************************************************)
(* The 32-bit reference the hash is compared with: hash * 9 - charCode     *)
(* truncated to a signed 32-bit integer after every character, then        *)
(* abs(hash rem 100).                                                      *)
(***************************************************************************)
\* hash * 9 - code, truncated to 32 bits, for hash within 32 bits
RefStep(hash, code) == ToInt32(Norm(hash[1] * 9, hash[2] * 9 - code))

RECURSIVE RefLoop(_, _, _)
RefLoop(seed, i, hash) ==
    IF i > Len(seed) THEN hash
    ELSE CHOOSE r \in {RefLoop(seed, i + 1, h) :
                          h \in {RefStep(hash, seed[i])}} : TRUE

RefHashPercent(seed) == MathAbs(JsRem100(RefLoop(seed, 1, Zero)))

\* h is within [-2^31, 2^31 - 1]
InInt32(h) == h[1] >= -HalfW16 /\ h[1] < HalfW16

\* the running hash of the code after 0, 1, .. n characters of the seed
RECURSIVE HashTrace(_, _)
HashTrace(seed, n) ==
    IF n = 0 THEN <<Zero>>
    ELSE CHOOSE r \in {Append(t, HashStep(t[n], seed[n])) :
                           t \in {HashTrace(seed, n - 1)}} : TRUE

\* the running hash of the code is within 32 bits after every character
StaysInt32(seed) ==
    LET t == HashTrace(seed, Len(seed))
    IN  \A n \in 1..Len(t) : InInt32(t[n])

\* eight times the running hash left 32 bits at some character: the shift wrapped
ShiftWrapped(seed) ==
    LET t == HashTrace(seed, Len(seed))
    IN  \E n \in 1..Len(t) : t[n][1] * 8 >= HalfW16 \/ t[n][1] * 8 < -HalfW16

\* C9 as stated: getHashPercent(seed) equals the reference that wraps to 32
\* bits on every step, for every seed
C9_HashIsWrapped32 ==
    hOut.k = "hash" => hOut.v = RefHashPercent(hSeed)

\* C9 amended: getHashPercent(seed) equals the 32-bit reference for every seed
\* whose running hash (hash << 3) + hash - charCode stays within 32 bits after
\* every character; only the shift wraps, the sum does not
C9_HashIsWrapped32WhileInRange ==
    (hOut.k = "hash" /\ StaysInt32(hSeed)) => hOut.v = RefHashPercent(hSeed)

\* a seed on which the shift wrapped and the running hash stayed in range
C9_Witness ==
    /\ hOut.k = "hash"
    /\ ShiftWrapped(hSeed)
    /\ StaysInt32(hSeed)
    /\ hOut.v = RefHashPercent(hSeed)

\* C10: for every seed, the empty one and those that overflow the running
\* hash or make it negative included, getHashPercent(seed) is in 0..99
C10_HashInRange ==
    hOut.k = "hash" => hOut.v \in 0..99

\* a seed whose running hash ends negative and beyond 32 bits
C10_Witness ==
    /\ hOut.k = "hash"
    /\ HashLoop(hSeed, 1, Zero)[1] < -HalfW16
    /\ hOut.v \in 0..99

(***************************************************************************)
(* Applications of processConfig to the responses of ProcResponses: the    *)
(* response either was fetched by call 1, which is about to process it, or *)
(* is in the cache with an expiry ahead, and call 1 is about to start.     *)
(***************************************************************************)
Absent == "<absent>"

\* the object with the keys of f whose value is not Absent
ObjectWith(f) == [key \in {x \in DOMAIN f : f[x] # Absent} |-> f[key]]

States == {Absent, "INSTANCE_STATE_UNSPECIFIED", "NO_TEMPLATE", "UPDATE", "EMPTY_CONFIG"}

ResponseWith(f, st) ==
    Response(TRUE, ObjectWith(f), st # Absent, IF st = Absent THEN "" ELSE st)

\* the rollout field and the state vary, the other fields all absent or all set
RoutingResponses ==
    {ResponseWith(
        [key \in {"fpr_log_transport_web_percent", "fpr_enabled", "fpr_log_source",
                  "fpr_log_endpoint_url", "fpr_log_transport_key",
                  "fpr_vc_network_request_sampling_rate",
                  "fpr_vc_trace_sampling_rate"} |->
            CASE key = "fpr_log_transport_web_percent" -> p
              [] ~full -> Absent
              [] key = "fpr_enabled" -> "false"
              [] key = "fpr_log_source" -> "7"
              [] key = "fpr_log_endpoint_url" -> "url1"
              [] key = "fpr_log_transport_key" -> "key1"
              [] key = "fpr_vc_network_request_sampling_rate" -> "0"
              [] OTHER -> "1"],
        st) : p \in {Absent, "0", "38", "50", "100", "abc"}, st \in States,
              full \in BOOLEAN}
    \cup {Response(FALSE, NoProps, st # Absent, IF st = Absent THEN "" ELSE st) :
             st \in States}

\* the four fields that are copied vary
FieldResponses ==
    {ResponseWith(
        [key \in {"fpr_enabled", "fpr_log_source", "fpr_log_endpoint_url",
                  "fpr_log_transport_key"} |->
            CASE key = "fpr_enabled" -> en
              [] key = "fpr_log_source" -> src
              [] key = "fpr_log_endpoint_url" -> url
              [] OTHER -> tk],
        "UPDATE") : en \in {Absent, "true", "false"}, src \in {Absent, "", "7"},
                    url \in {Absent, "", "url1"}, tk \in {Absent, "", "key1"}}

\* the two sampling rates vary
RateResponses ==
    {ResponseWith(
        [key \in {"fpr_vc_network_request_sampling_rate",
                  "fpr_vc_trace_sampling_rate", "fpr_vc_session_sampling_rate"} |->
            CASE key = "fpr_vc_network_request_sampling_rate" -> nr
              [] key = "fpr_vc_trace_sampling_rate" -> tr
              [] OTHER -> "1"],
        "UPDATE") : nr \in {Absent, "0", "1", "abc"}, tr \in {Absent, "0", "1", "abc"}}

ProcResponses == RoutingResponses \cup FieldResponses \cup RateResponses

ProcIids == {EmptyIid, AbcIid, LongIid}

\* settings that differ from PriorSettings in every field that is set
OtherSettings ==
    [loggingEnabled |-> TRUE, logSource |-> Num(50), logEndPointUrl |-> "url9",
     transportKey |-> "key9", shouldSendToTransport |-> FALSE,
     networkRequestsSamplingRate |-> Num(0), tracesSamplingRate |-> Num(0),
     logTraceAfterSampling |-> TRUE, logNetworkAfterSampling |-> TRUE,
     configTimeToLive |-> TimeToLive]

\* call 1 after its request ended ok with the body r, on empty storage
FetchedCall(r) ==
    [IdleCall EXCEPT !.pc = "process", !.config = r, !.path = "remote",
                     !.seenExpiry = "absent", !.seenBlob = "absent",
                     !.outcome = "ok", !.nRemote = 1, !.nAuth = 1, !.nFetch = 1]

InitProc ==
    /\ now = StartTime
    /\ ticks = 0
    /\ localStorage = TRUE
    /\ settings \in {PriorSettings, OtherSettings}
    /\ iid \in ProcIids
    /\ \E r \in ProcResponses :
          \/ /\ store = EmptyStore
             /\ calls = [c \in Calls |-> IF c = 1 THEN FetchedCall(r) ELSE IdleCall]
          \/ /\ store = [expiry |-> ValidExpiry, blob |-> JSONstringify(r)]
             /\ calls = [c \in Calls |-> IdleCall]
    /\ InitHashIdle

NextProc ==
    \/ \E r1 \in Randoms, r2 \in Randoms : Start(1, FALSE, r1, r2)
    \/ \E r1 \in Randoms, r2 \in Randoms : Process(1, r1, r2)

SpecProc == InitProc /\ [][NextProc]_vars

(***************************************************************************)
(* Steps that apply a present config, for the properties below: the        *)
(* .then of processConfig on a truthy value, and getConfig on a cache hit  *)
(* (the text under the blob key is then that of an object).                *)
(***************************************************************************)
ProcessStep(c) ==
    calls[c].pc = "process" /\ calls'[c].pc = "store" /\ Truthy(calls[c].config)

HitStep(c) == calls[c].pc = "idle" /\ calls'[c].path = "cached"

\* the state names that mean "no template", as sequences of JSON text
NoTemplateTexts == {<<>>, <<"INSTANCE_STATE_UNSPECIFIED">>, <<"NO_TEMPLATE">>}

\* the rollout field of a stored text, as a set: empty, or its one value
PercentOfText(text) ==
    {text.entries[i][2] : i \in {j \in 1..Len(text.entries) :
                                    text.entries[j][1] = "fpr_log_transport_web_percent"}}

PercentOfConfig(config) ==
    IF config.hasEntries /\ "fpr_log_transport_web_percent" \in DOMAIN config.entries
    THEN {config.entries["fpr_log_transport_web_percent"]}
    ELSE {}

\* C7: whenever a present config whose state is absent,
\* INSTANCE_STATE_UNSPECIFIED or NO_TEMPLATE is applied, shouldSendToTransport
\* is false afterwards, whatever the installation id and the rollout field
C7_NoTemplateForcesFalse ==
    [][\A c \in Calls :
          /\ (ProcessStep(c) /\ (~calls[c].config.hasState
                                 \/ calls[c].config.state \in
                                       {"INSTANCE_STATE_UNSPECIFIED", "NO_TEMPLATE"}))
                => ~settings'.shouldSendToTransport
          /\ (HitStep(c) /\ store.blob.state \in NoTemplateTexts)
                => ~settings'.shouldSendToTransport]_vars

\* NO_TEMPLATE with a rollout of 100 percent was applied for a non-empty id,
\* and the flag is false
C7_Witness ==
    /\ calls[1].pc = "store"
    /\ Truthy(calls[1].config)
    /\ calls[1].config.hasState /\ calls[1].config.state = "NO_TEMPLATE"
    /\ PercentOfConfig(calls[1].config) = {"100"}
    /\ iid = AbcIid
    /\ ~settings.shouldSendToTransport

\* what C8 says the flag is after a config with any other state
C8_Expected(percent) ==
    IF percent = {} THEN TRUE
    ELSE IF iid = EmptyIid THEN FALSE
    ELSE \E p \in percent : NumLt(Num(getHashPercent(iid)), Number(p))

\* C8: when a present config with any other state is applied, then with the
\* rollout field present shouldSendToTransport is false for an empty id and
\* hashPercent(iid) < percent otherwise, and without the field it is true
C8_RolloutByHash ==
    [][\A c \in Calls :
          /\ (ProcessStep(c) /\ calls[c].config.hasState
                /\ calls[c].config.state \notin
                      {"INSTANCE_STATE_UNSPECIFIED", "NO_TEMPLATE"})
                => settings'.shouldSendToTransport
                      = C8_Expected(PercentOfConfig(calls[c].config))
          /\ (HitStep(c) /\ store.blob.state \notin NoTemplateTexts)
                => settings'.shouldSendToTransport
                      = C8_Expected(PercentOfText(store.blob))]_vars

\* UPDATE with a rollout of 50 percent was applied for the id "abc", whose
\* hash is 38, starting from a flag that was false
C8_Witness ==
    /\ calls[1].pc = "store"
    /\ Truthy(calls[1].config)
    /\ calls[1].config.hasState /\ calls[1].config.state = "UPDATE"
    /\ PercentOfConfig(calls[1].config) = {"50"}
    /\ iid = AbcIid
    /\ getHashPercent(iid) = 38
    /\ settings.shouldSendToTransport
    /\ settings.transportKey = "key9"

(***************************************************************************)
(* Properties of getConfig, over the specification Spec.                   *)
(***************************************************************************)
FailedOutcomes == {"authFailed", "fetchFailed", "notOk"}

\* C1: for a getConfig call that missed the cache, if the auth token cannot
\* be had, fetch throws or the response is not 2xx, getRemoteConfig resolves
\* to absent and the promise of getConfig is not rejected: the chain goes on
\* with undefined and ends fulfilled
C1_FailedFetchIsAbsent ==
    \A c \in Calls :
        calls[c].outcome \in FailedOutcomes
            => /\ calls[c].path = "remote"
               /\ calls[c].config = Undefined
               /\ calls[c].pc \in {"process", "store", "fulfilled"}
               /\ ~calls[c].setThrew

\* a call whose fetch threw has ended fulfilled
C1_Witness ==
    \E c \in Calls : calls[c].outcome = "fetchFailed" /\ calls[c].pc = "fulfilled"

\* C2 as stated: when setItem throws while a fetched response is stored, the
\* promise of getConfig is still fulfilled
C2_StoreFailureIsSwallowed ==
    \A c \in Calls : calls[c].setThrew => calls[c].pc # "rejected"

\* the log of a call says the cache check found an expiry ahead of the clock
\* and a text that parses
SawParseable(c) ==
    /\ ~calls[c].getThrew
    /\ calls[c].seenCmp = "future"
    /\ calls[c].seenBlob \in {"json", "jsonnull"}

\* the same, the text being that of an object
SawObject(c) ==
    /\ ~calls[c].getThrew
    /\ calls[c].seenCmp = "future"
    /\ calls[c].seenBlob = "json"

\* the call ended at once, with no request and no write
EndedAsHit(c) ==
    /\ calls[c].path = "cached"
    /\ calls[c].pc = "fulfilled"
    /\ calls[c].nRemote = 0 /\ calls[c].nAuth = 0 /\ calls[c].nFetch = 0
    /\ calls[c].nSet = 0

\* C3 as stated: an unexpired expiry and a stored text that parses make a
\* cache hit, which ends the call with no request and no write
C3_ParseableIsHit ==
    \A c \in Calls : SawParseable(c) => EndedAsHit(c)

\* C3 amended: an unexpired expiry and a stored text that parses to an object
\* (not to null) make a cache hit; the hit applies the stored config and ends
\* the call fulfilled with no auth-token or network request and no write, both
\* keys of the storage unchanged
C3_HitAppliesWithoutFetchOrStore ==
    /\ [](\A c \in Calls :
             /\ SawObject(c) => EndedAsHit(c)
             /\ calls[c].path = "cached" => EndedAsHit(c))
    /\ [][\A c \in Calls :
             HitStep(c) =>
                /\ store' = store
                /\ store.blob.k = "json"
                /\ \E r1 \in Randoms, r2 \in Randoms :
                      settings' = processConfig(iid, JSONparse(store.blob), settings,
                                                r1, r2)]_vars

\* a call was served from the cache and the settings are no longer the prior
C3_Witness ==
    \E c \in Calls :
        /\ SawObject(c)
        /\ EndedAsHit(c)
        /\ settings # PriorSettings
        /\ \A b \in Calls : b # c => calls[b].pc = "idle"

\* C4: a cached config is valid only while now < stored expiry, the clock
\* being read at the cache check: an expiry equal to now, or earlier, is a
\* miss and causes a fetch
C4_ValidOnlyBeforeExpiry ==
    \A c \in Calls :
        /\ calls[c].path = "cached" => calls[c].seenCmp = "future"
        /\ (calls[c].seenCmp \in {"equal", "past"} /\ ~calls[c].getThrew)
              => calls[c].path = "remote" /\ calls[c].nRemote = 1

\* a call found a parseable config whose expiry was exactly the clock, and fetched
C4_Witness ==
    \E c \in Calls :
        /\ calls[c].seenCmp = "equal"
        /\ calls[c].seenBlob = "json"
        /\ calls[c].path = "remote"
        /\ calls[c].nFetch = 1

\* the log of a call says the cache check found one of the four cases of C5
SawMiss(c) ==
    /\ ~calls[c].getThrew
    /\ \/ calls[c].seenExpiry = "absent"
       \/ calls[c].seenBlob = "absent"
       \/ calls[c].seenCmp \in {"equal", "past"}
       \/ calls[c].seenBlob = "malformed"

\* C5: the cache read is a miss, never an error, when the expiry key is
\* absent, the blob key is absent, the expiry has passed or the blob does not
\* parse; getConfig then calls getRemoteConfig exactly once (one auth-token
\* request, and one fetch once the token is there)
C5_MissFallsBackToOneFetch ==
    \A c \in Calls :
        SawMiss(c) =>
            /\ calls[c].path = "remote"
            /\ calls[c].pc \notin {"idle", "thrown"}
            /\ calls[c].nRemote = 1
            /\ calls[c].nAuth = 1
            /\ calls[c].nFetch = IF calls[c].pc = "auth" \/ calls[c].outcome = "authFailed"
                                 THEN 0 ELSE 1

\* a call found a blob that does not parse under an expiry ahead, and fetched
C5_Witness ==
    \E c \in Calls :
        /\ calls[c].seenBlob = "malformed"
        /\ calls[c].seenCmp = "future"
        /\ calls[c].path = "remote"
        /\ calls[c].outcome = "ok"
        /\ calls[c].nFetch = 1

\* C6: when the config obtained is absent (a miss, then a failed fetch),
\* processConfig returns absent without changing a settings field and nothing
\* is stored: no step of such a call changes the settings or the storage
C6_AbsentChangesNothing ==
    [][\A c \in Calls :
          /\ (calls[c].pc \in {"process", "store"} /\ ~Truthy(calls[c].config)
                /\ calls'[c].pc # calls[c].pc)
                => /\ settings' = settings
                   /\ store' = store
                   /\ calls'[c].nSet = calls[c].nSet
                   /\ ~Truthy(calls'[c].config)
                   /\ calls'[c].pc \in {"store", "fulfilled"}
          /\ (calls[c].pc \in {"idle", "auth", "fetch"}
                /\ calls'[c].pc # calls[c].pc
                /\ calls'[c].path = "remote")
                => settings' = settings /\ store' = store]_vars

\* a call that missed and whose request failed has ended; the settings are
\* the prior ones and the storage holds what it held
C6_Witness ==
    \E c \in Calls :
        /\ calls[c].pc = "fulfilled"
        /\ calls[c].outcome \in FailedOutcomes
        /\ calls[c].seenCmp = "equal"
        /\ settings = PriorSettings
        /\ store.expiry = String(StartTime)
        /\ \A b \in Calls : b # c => calls[b].pc = "idle"

(***************************************************************************)
(* The persistence path on the responses of ProcResponses: call 1 has      *)
(* fetched a response and is about to process it, on empty storage; it     *)
(* stores it, the clock advances, and call 2 is made.                      *)
(***************************************************************************)
InitTrip ==
    /\ now = StartTime
    /\ ticks = 0
    /\ localStorage = TRUE
    /\ store = EmptyStore
    /\ settings \in {PriorSettings, OtherSettings}
    /\ iid \in ProcIids
    /\ \E r \in ProcResponses :
          calls = [c \in Calls |-> IF c = 1 THEN FetchedCall(r) ELSE IdleCall]
    /\ InitHashIdle

NextTrip ==
    \/ \E r1 \in Randoms, r2 \in Randoms : Process(1, r1, r2)
    \/ \E f \in SetFails : Store(1, f)
    \/ \E d \in TickSteps : Tick(d)
    \/ \E r1 \in Randoms, r2 \in Randoms : Start(2, FALSE, r1, r2)

SpecTrip == InitTrip /\ [][NextTrip]_vars

\* the settings fields, the two per-session flags aside
Fields(s) ==
    [s EXCEPT !.logTraceAfterSampling = FALSE, !.logNetworkAfterSampling = FALSE]

\* what getStoredConfig returns from the items at the time t
ReadBack(items, t) == getStoredConfig(TRUE, items, t, FALSE)

\* the step in which storeConfig wrote the present config of call c
StoredStep(c) ==
    /\ calls[c].pc = "store"
    /\ Truthy(calls[c].config)
    /\ calls'[c].pc = "fulfilled"
    /\ calls'[c].nSet = calls[c].nSet + 2

\* C11: a response that storeConfig stored and getStoredConfig reads back at
\* a time before the expiry (the time of the write, the last millisecond
\* before the expiry) is present and, applied for the same installation id
\* to any settings, gives the same fields, the two sampled flags aside, as
\* the original response; a cache hit applies what getStoredConfig read
C11_RoundTrip ==
    [][\A c \in Calls :
          /\ StoredStep(c) =>
                \A t \in {now', store'.expiry.n - 1} :
                   LET back == ReadBack(store', t)
                   IN  /\ ~back.threw
                       /\ Truthy(back.value)
                       /\ \A s \in {settings, PriorSettings, OtherSettings},
                             r1 \in Randoms, r2 \in Randoms :
                             Fields(processConfig(iid, back.value, s, r1, r2))
                                = Fields(processConfig(iid, calls[c].config, s, r1, r2))
          /\ HitStep(c) =>
                \E r1 \in Randoms, r2 \in Randoms :
                   settings' = processConfig(iid, ReadBack(store, now).value,
                                             settings, r1, r2)]_vars

\* call 1 stored an UPDATE response with all fields and a rollout of 50
\* percent, and call 2 read it back in the last millisecond before the
\* expiry and applied it for the id "abc"
C11_Witness ==
    /\ calls[1].pc = "fulfilled" /\ calls[1].nSet = 2
    /\ calls[2].path = "cached"
    /\ now = store.expiry.n - 1
    /\ store.blob.state = <<"UPDATE">>
    /\ PercentOfText(store.blob) = {"50"}
    /\ iid = AbcIid
    /\ settings.shouldSendToTransport
    /\ settings.transportKey = "key1"
    /\ settings.logSource = Num(7)

(***************************************************************************)
(* The precedence of the six mapped fields, over SpecProc.                 *)
(***************************************************************************)
\* the entries a present config is applied with: config.entries || {}
EntriesOf(config) == IF config.hasEntries THEN config.entries ELSE NoProps

\* the key is in the entries; with nonEmpty, its value is not "" either
Explicit(e, key, nonEmpty) ==
    key \in DOMAIN e /\ (nonEmpty => e[key] # "")

\* the six fields the precedence rule gives from the entries e and the prior
\* settings s; sourceNonEmpty: fpr_log_source counts only when it is not ""
Precedence(e, s, sourceNonEmpty) ==
    <<IF Explicit(e, "fpr_enabled", FALSE) THEN e["fpr_enabled"] = "true" ELSE TRUE,
      IF Explicit(e, "fpr_log_source", sourceNonEmpty)
      THEN Number(e["fpr_log_source"]) ELSE s.logSource,
      IF Explicit(e, "fpr_log_endpoint_url", TRUE)
      THEN e["fpr_log_endpoint_url"] ELSE s.logEndPointUrl,
      IF Explicit(e, "fpr_log_transport_key", TRUE)
      THEN e["fpr_log_transport_key"] ELSE s.transportKey,
      IF Explicit(e, "fpr_vc_network_request_sampling_rate", FALSE)
      THEN Number(e["fpr_vc_network_request_sampling_rate"])
      ELSE s.networkRequestsSamplingRate,
      IF Explicit(e, "fpr_vc_trace_sampling_rate", FALSE)
      THEN Number(e["fpr_vc_trace_sampling_rate"]) ELSE s.tracesSamplingRate>>

SixFields(s) ==
    <<s.loggingEnabled, s.logSource, s.logEndPointUrl, s.transportKey,
      s.networkRequestsSamplingRate, s.tracesSamplingRate>>

\* C12 as stated: when a present config is applied, each of the six fields is
\* the coerced value of its key if the key is present (not "" asked only of
\* the endpoint url and the transport key), else true for loggingEnabled,
\* else the prior value
C12_PrecedenceSourceMayBeEmpty ==
    [][\A c \in Calls :
          /\ ProcessStep(c) =>
                SixFields(settings')
                   = Precedence(EntriesOf(calls[c].config), settings, FALSE)
          /\ HitStep(c) =>
                SixFields(settings')
                   = Precedence(EntriesOf(JSONparse(store.blob)), settings, FALSE)]_vars

\* C12 amended: the same, with not "" asked of fpr_log_source too: an empty
\* fpr_log_source leaves logSource at its prior value
C12_Precedence ==
    [][\A c \in Calls :
          /\ ProcessStep(c) =>
                SixFields(settings')
                   = Precedence(EntriesOf(calls[c].config), settings, TRUE)
          /\ HitStep(c) =>
                SixFields(settings')
                   = Precedence(EntriesOf(JSONparse(store.blob)), settings, TRUE)]_vars

\* a fetched config with fpr_enabled "false", fpr_log_source "", no endpoint
\* url and a transport key was applied to settings that had logSource 50:
\* loggingEnabled and the key are the explicit ones, logSource and the url
\* are the prior ones
C12_Witness ==
    /\ calls[1].pc = "store"
    /\ Truthy(calls[1].config)
    /\ Explicit(EntriesOf(calls[1].config), "fpr_log_source", FALSE)
    /\ calls[1].config.entries["fpr_log_source"] = ""
    /\ ~Explicit(EntriesOf(calls[1].config), "fpr_log_endpoint_url", FALSE)
    /\ SixFields(settings) = <<FALSE, Num(50), "url9", "key1", Num(0), Num(0)>>

(***************************************************************************)
(* isDestTransport as a function of its arguments, over SpecHash.          *)
(***************************************************************************)
\* C13: a second call of isDestTransport with the same id and percent
\* returns what the first returned, and when a call returns true for the
\* percent p it returns true for every percent q with p <= q
C13_DeterministicMonotonic ==
    /\ hOut.k = "again" => hOut.w = hOut.v
    /\ (hOut.k \in {"dest", "again"} /\ hOut.v)
          => \A q \in Percents :
                NumLeq(hPercent, q) => isDestTransport(hSeed, q)

\* an id of the greatest length that is in at 50 percent, twice, and out at
\* 38 percent
C13_Witness ==
    /\ hOut.k = "again"
    /\ hOut.v /\ hOut.w
    /\ hPercent = Num(50)
    /\ Len(hSeed) = MaxSeedLen
    /\ ~isDestTransport(hSeed, Num(38))

(***************************************************************************)
(* The time to live of what a call stored, over Spec.                      *)
(***************************************************************************)
\* call b fetched a present response and wrote both keys
Persisted(b) == calls[b].path = "remote" /\ calls[b].nSet = 2

\* call c is made and getStoredConfig returns (getItem does not throw)
StartStep(c) == calls[c].pc = "idle" /\ calls'[c].pc \notin {"idle", "thrown"}

\* C14: the call that persists a fetched response at the time t writes the
\* expiry t + ttl * 3600000; once a call has persisted, a getConfig made
\* strictly before the expiry in the storage (that of the latest write) is a
\* cache hit that calls neither getRemoteConfig nor fetch, and one made at or
\* after it falls back to getRemoteConfig; the storage reads do not throw
C14_ExpiryGovernsLaterCalls ==
    /\ [](\A b \in Calls :
             Persisted(b) => store.expiry.k = "dec" /\ store.blob.k = "json")
    /\ [][\A c \in Calls :
             /\ StoredStep(c) =>
                   store'.expiry = String(now + settings.configTimeToLive * HourMs)
             /\ (StartStep(c) /\ \E b \in Calls : Persisted(b)) =>
                   IF now < store.expiry.n
                   THEN /\ calls'[c].path = "cached"
                        /\ calls'[c].pc = "fulfilled"
                        /\ calls'[c].nRemote = 0
                        /\ calls'[c].nAuth = 0
                        /\ calls'[c].nFetch = 0
                   ELSE /\ calls'[c].path = "remote"
                        /\ calls'[c].nRemote = 1
                        /\ calls'[c].nAuth = 1]_vars

\* call 1 came on empty storage and persisted at StartTime; call 2 was made
\* one millisecond before the expiry and was served from the cache
C14_Witness ==
    /\ Persisted(1)
    /\ calls[1].seenExpiry = "absent"
    /\ store.expiry = String(StartTime + TimeToLive * HourMs)
    /\ now = StartTime + TimeToLive * HourMs - 1
    /\ calls[2].path = "cached"
    /\ calls[2].pc = "fulfilled"
    /\ calls[2].nFetch = 0

(***************************************************************************)
(* Overlapping calls, over Spec.                                           *)
(***************************************************************************)
\* call b has been made and its promise is pending
InFlight(b) == calls[b].pc \in {"auth", "fetch", "process", "store"}

\* storeConfig of call c returns, for a present config and with a storage
StoreReturns(c) ==
    /\ calls[c].pc = "store"
    /\ Truthy(calls[c].config)
    /\ localStorage
    /\ calls'[c].pc = "fulfilled"

\* no other call can have applied a config after call c did: none was served
\* from the cache and none has its storeConfig callback queued
AppliedLast(c) ==
    \A b \in Calls : b # c => calls[b].path # "cached" /\ calls[b].pc # "store"

\* call c missed the cache before call b, which persisted, had written
Overlapped(b, c) ==
    /\ b # c
    /\ Persisted(b)
    /\ calls[c].path = "remote"
    /\ calls[c].seenExpiry = "absent"

\* C15: a call that misses the cache while another is in flight calls
\* getRemoteConfig itself; every call applies its present result to the
\* settings as they are then, and stores it over what the storage holds; when
\* it is the last to store, the blob and the expiry are its own and the
\* settings are as its processConfig left them (the last writer wins)
C15_OverlapLastWriterWins ==
    [][\A c \in Calls :
          /\ (StartStep(c) /\ calls'[c].path = "remote"
                /\ \E b \in Calls : b # c /\ InFlight(b))
                => /\ calls'[c].pc = "auth"
                   /\ calls'[c].nRemote = 1
                   /\ calls'[c].nAuth = 1
                   /\ \A b \in Calls : b # c => calls'[b] = calls[b]
          /\ ProcessStep(c) =>
                \E r1 \in Randoms, r2 \in Randoms :
                   settings' = processConfig(iid, calls[c].config, settings, r1, r2)
          /\ StoreReturns(c) =>
                /\ store' = [blob |-> JSONstringify(calls[c].config),
                             expiry |-> String(now + settings.configTimeToLive * HourMs)]
                /\ calls'[c].nSet = 2
                /\ settings' = settings
          /\ (StoreReturns(c) /\ AppliedLast(c)) =>
                Fields(settings)
                   = Fields(processConfig(iid, calls[c].config, settings, 0, 0))]_vars

\* two calls missed the empty cache, one before the other had written; the
\* UPDATE response was applied and stored first, the NO_TEMPLATE response
\* last: the storage holds the latter, and so do the settings (logSource,
\* which NO_TEMPLATE does not set, is still the 7 of UPDATE)
C15_Witness ==
    /\ \E b \in Calls, c \in Calls : Overlapped(b, c) /\ Persisted(c)
    /\ \A c \in Calls : calls[c].pc = "fulfilled" /\ calls[c].nFetch = 1
    /\ store.blob = JSONstringify(NoTemplateResponse)
    /\ ~settings.loggingEnabled
    /\ ~settings.shouldSendToTransport
    /\ settings.logSource = Num(7)

(***************************************************************************)
(* A failing storage read, over Spec.                                      *)
(***************************************************************************)
\* C16 as stated: a call made without a storage, or whose getItem throws
\* during the cache check, goes on as on a cache miss: it calls
\* getRemoteConfig, getConfig does not throw and its promise is not rejected
C16_ReadFailureIsSoft ==
    \A c \in Calls :
        (calls[c].pc # "idle" /\ (~localStorage \/ calls[c].getThrew))
            => /\ calls[c].path = "remote"
               /\ calls[c].nRemote = 1
               /\ calls[c].pc \notin {"thrown", "rejected"}

(***************************************************************************)
(* The calls of Spec on a storage that is empty at first, so that only     *)
(* storeConfig writes it.                                                  *)
(***************************************************************************)
InitFresh ==
    /\ now = StartTime
    /\ ticks = 0
    /\ localStorage \in BOOLEAN
    /\ store = EmptyStore
    /\ settings = PriorSettings
    /\ iid \in MainIids
    /\ calls = [c \in Calls |-> IdleCall]
    /\ InitHashIdle

SpecFresh == InitFresh /\ [][Next]_vars

\* the storeConfig callback of call c runs
StoreStep(c) == calls[c].pc = "store" /\ calls'[c].pc # "store"

\* C17: storeConfig writes nothing when the config is absent or there is no
\* storage; otherwise it writes the blob first, so the expiry changes only
\* in a step that leaves the text of the config under the blob key, and a
\* write that fails part-way leaves the blob written and the expiry as it
\* was; hence from empty storage an expiry that is present implies a blob
\* that is present, in every reachable state
C17_ExpiryImpliesBlob ==
    /\ [](store.expiry.k # "absent" => store.blob.k = "json")
    /\ [][\A c \in Calls :
             StoreStep(c) =>
                /\ (~Truthy(calls[c].config) \/ ~localStorage)
                      => store' = store /\ calls'[c].nSet = calls[c].nSet
                /\ store'.expiry # store.expiry
                      => store'.blob = JSONstringify(calls[c].config)
                /\ calls'[c].nSet = calls[c].nSet + 1
                      => /\ store'.blob = JSONstringify(calls[c].config)
                         /\ store'.expiry = store.expiry
                         /\ calls'[c].setThrew]_vars

\* the write of the expiry failed after the blob was written, while the
\* other call was in flight: a blob without an expiry
C17_Witness ==
    /\ store.blob.k = "json"
    /\ store.expiry.k = "absent"
    /\ \E c \in Calls :
          /\ calls[c].setThrew /\ calls[c].nSet = 1
          /\ \E b \in Calls : b # c /\ InFlight(b)

(***************************************************************************)
(* The per-session flags, over SpecProc.                                   *)
(***************************************************************************)
\* the rate is a number and at least 1
AtLeastOne(rate) == NumLeq(Num(1), rate)

\* C18: whenever a present config is applied, from a fetch or from the
\* cache, each of logTraceAfterSampling and logNetworkAfterSampling is
\* Math.random() <= rate for some value of Math.random() in [0,1) and the
\* rate the settings hold after the step; it is true when that rate is at
\* least 1
C18_FlagsFromRatesAfterMapping ==
    [][\A c \in Calls :
          (ProcessStep(c) \/ HitStep(c)) =>
             /\ \E r \in Randoms :
                   settings'.logTraceAfterSampling
                      = shouldLogAfterSampling(settings'.tracesSamplingRate, r)
             /\ \E r \in Randoms :
                   settings'.logNetworkAfterSampling
                      = shouldLogAfterSampling(settings'.networkRequestsSamplingRate, r)
             /\ AtLeastOne(settings'.tracesSamplingRate)
                   => settings'.logTraceAfterSampling
             /\ AtLeastOne(settings'.networkRequestsSamplingRate)
                   => settings'.logNetworkAfterSampling]_vars

\* a fetched config that sets both rates to 0 was applied to settings whose
\* rates were 1 and whose flags were false: the two draws differed, the
\* trace flag is true and the network flag is false
C18_Witness ==
    /\ calls[1].pc = "store"
    /\ Truthy(calls[1].config)
    /\ Explicit(EntriesOf(calls[1].config), "fpr_vc_trace_sampling_rate", FALSE)
    /\ Explicit(EntriesOf(calls[1].config), "fpr_vc_network_request_sampling_rate", FALSE)
    /\ settings.tracesSamplingRate = Num(0)
    /\ settings.networkRequestsSamplingRate = Num(0)
    /\ settings.transportKey = "key0"
    /\ settings.logTraceAfterSampling
    /\ ~settings.logNetworkAfterSampling

====
